---- MODULE Spec2Model ----
(***************************************************************************)
(* Model of game_agent.py: the heuristic evaluator (custom_score /         *)
(* heuristic3), the depth-limited searches CustomPlayer.minimax and        *)
(* CustomPlayer.alphabeta with their cooperative Timeout, and the          *)
(* orchestration in CustomPlayer.get_move (fixed depth and iterative       *)
(* deepening).  The Board collaborator (isolation.Board) is not part of    *)
(* game_agent.py; it is modelled from its interface: knight-move           *)
(* Isolation on a height x width grid.                                     *)
(*                                                                         *)
(* Scores are floats in the source.  Every finite score the evaluator      *)
(* produces is a multiple of 1/10, so a score s is represented by the      *)
(* integer Scale*s, and float("inf") by the integer Inf, larger than any   *)
(* finite score; comparisons are then the float comparisons.               *)
(***************************************************************************)
EXTENDS Integers, Sequences, FiniteSets, TLC

VARIABLES
    game,          \* the Board: [height, width, loc, blocked, active]
    plies,         \* number of moves applied to the board so far
    pc,            \* get_move: "idle", "searching", "returned", "raised"
    iterative,     \* self.iterative
    method,        \* self.method
    search_depth,  \* self.search_depth
    time_left,     \* self.time_left: the clock [t, tick] behind the callable
    result,        \* get_move's local `result`
    depth,         \* the loop variable of the deepening loop
    calls,         \* history: depth argument of every search call of this get_move
    done,          \* history: move returned by every search call that completed
    trace,         \* history: what the search calls of this get_move did
    value          \* last value returned by the evaluator (evaluation-only runs)

vars == <<game, plies, pc, iterative, method, search_depth, time_left,
          result, depth, calls, done, trace, value>>

----------------------------------------------------------------------------
(* Bounds of the model *)

\* moves applied to a board before the agent is asked to move
MaxPlies == 4
\* largest search_depth of a fixed-depth search
MaxDepth == 3
\* largest number of time readings at or above the threshold of a running clock
MaxBudget == 5
\* cap of the deepening loop's counter (range(sys.maxsize) in the source)
MaxIterDepth == 7
\* moves applied to a board before the agent is asked to move, in the runs that
\* follow one get_move call to its end
MaxPliesL == 2
\* moves applied to a board in the evaluation-only runs
MaxPliesH == 3

\* board sizes <<height, width>> of the search runs
Boards == {<<3, 3>>, <<2, 5>>}
\* board sizes of the runs that follow one get_move call to its end
BoardsL == {<<3, 3>>}
\* board sizes of the evaluation-only runs
BoardsH == {<<7, 7>>, <<2, 18>>}

----------------------------------------------------------------------------
(* Values *)

\* float("inf"); -Inf is float("-inf")
Inf == 1000000
\* the divisor of the positional tiebreak; scores are kept in units of 1/Scale
Scale == 10
\* the default of CustomPlayer's `timeout`, self.TIMER_THRESHOLD
TIMER_THRESHOLD == 10
\* Python's None (a move or a location that is not set)
None == <<>>
\* the "no legal move" sentinel (-1, -1)
NoMove == <<-1, -1>>

Abs(x) == IF x < 0 THEN -x ELSE x
Max(x, y) == IF x >= y THEN x ELSE y
Min(x, y) == IF x <= y THEN x ELSE y

----------------------------------------------------------------------------
(* The Board collaborator *)

\* the movement rule: the eight L-shaped moves
Directions == << <<-1, -2>>, <<-1, 2>>, <<1, -2>>, <<1, 2>>,
                 <<-2, -1>>, <<-2, 1>>, <<2, -1>>, <<2, 1>> >>

NewBoard(h, w) ==
    [height |-> h, width |-> w, loc |-> <<None, None>>, blocked |-> {}, active |-> 1]

get_opponent(g, player) == 3 - player

get_player_location(g, player) == g.loc[player]

move_is_legal(g, m) ==
    /\ m[1] >= 0 /\ m[1] < g.height
    /\ m[2] >= 0 /\ m[2] < g.width
    /\ m \notin g.blocked

\* all cells, column by column
Cells(g) ==
    [k \in 1..(g.height * g.width) |-> <<(k - 1) % g.height, (k - 1) \div g.height>>]

get_blank_spaces(g) == SelectSeq(Cells(g), LAMBDA m : m \notin g.blocked)

\* the ordered legal moves of `player`: any blank cell for the first move, the
\* L-shaped moves to blank cells afterwards
get_moves(g, player) ==
    IF g.loc[player] = None
    THEN get_blank_spaces(g)
    ELSE LET l == g.loc[player]
             targets == [k \in 1..8 |-> <<l[1] + Directions[k][1], l[2] + Directions[k][2]>>]
         IN  SelectSeq(targets, LAMBDA m : move_is_legal(g, m))

\* legal moves of the player to move
get_legal_moves(g) == get_moves(g, g.active)

\* a new board with the move applied and the turn advanced
forecast_move(g, m) ==
    [g EXCEPT !.loc[g.active] = m, !.blocked = @ \cup {m}, !.active = 3 - g.active]

is_winner(g, player) ==
    player = 3 - g.active /\ get_legal_moves(g) = <<>>

is_loser(g, player) ==
    player = g.active /\ get_legal_moves(g) = <<>>

\* +inf / -inf once the player to move has no move, 0 otherwise
utility(g, player) ==
    IF get_legal_moves(g) = <<>>
    THEN IF player = 3 - g.active THEN Inf ELSE -Inf
    ELSE 0

----------------------------------------------------------------------------
(* The evaluator *)

\* Manhattan distance of a location to the centre (int(height/2), int(width/2))
CenterDistance(g, l) ==
    Abs(l[1] - (g.height \div 2)) + Abs(l[2] - (g.width \div 2))

\* faulty variant: the difference of the distances, not divided by 10
Tiebreak_Undivided(opponent_distance, player_distance) ==
    (opponent_distance - player_distance) * Scale

\* the positional tiebreak of heuristic3: float(opponent - player) / 10.
Tiebreak(opponent_distance, player_distance) ==
    ((opponent_distance - player_distance) * Scale) \div 10

heuristic3(g, player) ==
    IF is_winner(g, player) THEN Inf
    ELSE IF is_loser(g, player) THEN -Inf
    ELSE LET player_moves_left == Len(get_moves(g, player))
             opponent_moves_left == Len(get_moves(g, get_opponent(g, player)))
         IN  IF player_moves_left # opponent_moves_left
             THEN Scale * (player_moves_left - opponent_moves_left)
             ELSE Tiebreak(CenterDistance(g, get_player_location(g, get_opponent(g, player))),
                           CenterDistance(g, get_player_location(g, player)))

custom_score(g, player) == heuristic3(g, player)

\* the difference of the numbers of legal moves
heuristic1(g, player) ==
    IF is_winner(g, player) THEN Inf
    ELSE IF is_loser(g, player) THEN -Inf
    ELSE LET own_moves == Len(get_moves(g, player))
             opp_moves == Len(get_moves(g, get_opponent(g, player)))
         IN  Scale * (own_moves - opp_moves)

\* a move against the wall: on the first or last row or column
AgainstWall(g, move) ==
    \/ move[1] = 0
    \/ move[1] = g.height - 1
    \/ move[2] = 0
    \/ move[2] = g.width - 1

\* the difference of the numbers of legal moves that are not against the wall
heuristic2(g, player) ==
    IF is_loser(g, player) THEN -Inf
    ELSE IF is_winner(g, player) THEN Inf
    ELSE LET own_moves == get_moves(g, player)
             own_v_wall == SelectSeq(own_moves, LAMBDA move : AgainstWall(g, move))
             opp_moves == get_moves(g, get_opponent(g, player))
             opp_v_wall == SelectSeq(opp_moves, LAMBDA move : AgainstWall(g, move))
         IN  Scale * (Len(own_moves) - Len(own_v_wall) - Len(opp_moves) + Len(opp_v_wall))

\* the functions a CustomPlayer can be given as score_fn
Evaluators == {"custom_score", "heuristic1", "heuristic2"}

\* a CustomPlayer as the searches use it: the player it is on the board and
\* its self.score
Agent(player, score_fn) == [player |-> player, score |-> score_fn]

\* self.score(game, self)
Score(self, g) ==
    CASE self.score = "custom_score" -> custom_score(g, self.player)
      [] self.score = "heuristic1" -> heuristic1(g, self.player)
      [] self.score = "heuristic2" -> heuristic2(g, self.player)

----------------------------------------------------------------------------
(* The clock and the history of a search *)

\* A search threads a record st: the clock behind self.time_left() (t, the
\* reading the next call returns; tick, by how much each reading lowers it) and
\* counters of what the search has done so far: time readings (reads),
\* readings below the threshold (low), get_legal_moves calls (nodes),
\* forecast_move calls (forecasts), evaluator calls (evals), and how many of
\* all these happened after a reading below the threshold (after), and the
\* number of frames a Timeout has unwound (unwound).
NewTrace(clock) ==
    [t |-> clock.t, tick |-> clock.tick, reads |-> 0, low |-> 0, nodes |-> 0,
     forecasts |-> 0, evals |-> 0, after |-> 0, unwound |-> 0]

Late(st) == IF st.low > 0 THEN 1 ELSE 0

\* faulty variant: the time check never fires
TimedOut_Never(st) == FALSE

\* self.time_left() < self.TIMER_THRESHOLD
TimedOut(st) == st.t < TIMER_THRESHOLD

\* one call of self.time_left()
ReadClock(st) ==
    [st EXCEPT !.t = @ - st.tick, !.reads = @ + 1,
               !.low = @ + (IF st.t < TIMER_THRESHOLD THEN 1 ELSE 0),
               !.after = @ + Late(st)]

QueryBoard(st) == [st EXCEPT !.nodes = @ + 1, !.after = @ + Late(st)]
Forecast(st) == [st EXCEPT !.forecasts = @ + 1, !.after = @ + Late(st)]
Evaluate(st) == [st EXCEPT !.evals = @ + 1, !.after = @ + Late(st)]

\* What a call hands to its caller: a returned pair (score, move), or a raised
\* Timeout.  A raised record also carries the best pair the interrupted frame
\* held when it was unwound, which Python discards.
Return(score, move, st) == [raised |-> FALSE, score |-> score, move |-> move, st |-> st]
Raise(score, move, st) == [raised |-> TRUE, score |-> score, move |-> move, st |-> st]

----------------------------------------------------------------------------
(* CustomPlayer.minimax *)

RECURSIVE minimax(_, _, _, _, _)
RECURSIVE MinimaxLoop(_, _, _, _, _, _, _, _, _)
RECURSIVE alphabeta(_, _, _, _, _, _, _)
RECURSIVE AlphabetaLoop(_, _, _, _, _, _, _, _, _, _, _)

\* faulty variant: the comparisons are not strict, a later move of equal score wins
Better_NonStrict(maximizing_player, score, best_score) ==
    IF maximizing_player THEN score >= best_score ELSE score <= best_score

\* faulty variant: the two comparisons exchanged
Better_Reversed(maximizing_player, score, best_score) ==
    IF maximizing_player THEN score < best_score ELSE score > best_score

\* `if score > best_score` on a maximizing layer, `if score < best_score` on a
\* minimizing one
Better(maximizing_player, score, best_score) ==
    IF maximizing_player THEN score > best_score ELSE score < best_score

\* faulty variant: the depth cutoff applied before the terminal test
Leaf_DepthFirst(g, d, self, st) ==
    IF d = 0
    THEN Return(Score(self, g), NoMove, Evaluate(st))
    ELSE Return(utility(g, self.player), NoMove, st)

\* the terminal test and the depth cutoff, in the order the source applies them
Leaf(g, d, self, st) ==
    IF get_legal_moves(g) = <<>>
    THEN Return(utility(g, self.player), NoMove, st)
    ELSE Return(Score(self, g), NoMove, Evaluate(st))

IsLeaf(g, d) == get_legal_moves(g) = <<>> \/ d = 0

\* faulty variant: the frame catches the Timeout and returns its best pair so far
Unwind_Swallowed(r, best_score, best_move) == Return(best_score, best_move, r.st)

\* what a frame does with a Timeout raised by the child it called: nothing,
\* the exception unwinds it
Unwind(r, best_score, best_move) ==
    Raise(best_score, best_move, [r.st EXCEPT !.unwound = @ + 1])

\* `call` is evaluated once, and `rest` continues with the value it produced
Then(call, rest(_)) == CHOOSE out \in {rest(r) : r \in {call}} : TRUE

\* the `for move in legal_moves` loop from its i-th move on
MinimaxLoop(g, d, maximizing_player, self, legal_moves, i, best_score, best_move, st) ==
    IF i > Len(legal_moves)
    THEN Return(best_score, best_move, st)
    ELSE Then(forecast_move(g, legal_moves[i]), LAMBDA next_state :
         Then(minimax(next_state, d - 1, ~maximizing_player, self, Forecast(st)), LAMBDA r :
              IF r.raised
              THEN Unwind(r, best_score, best_move)
              ELSE IF Better(maximizing_player, r.score, best_score)
                   THEN MinimaxLoop(g, d, maximizing_player, self, legal_moves, i + 1,
                                    r.score, legal_moves[i], r.st)
                   ELSE MinimaxLoop(g, d, maximizing_player, self, legal_moves, i + 1,
                                    best_score, best_move, r.st)))

minimax(g, d, maximizing_player, self, st) ==
    IF TimedOut(st)
    THEN Raise(0, None, ReadClock(st))
    ELSE Then(QueryBoard(ReadClock(st)), LAMBDA st1 :
              IF IsLeaf(g, d)
              THEN Leaf(g, d, self, st1)
              ELSE Then(get_legal_moves(g), LAMBDA legal_moves :
                        MinimaxLoop(g, d, maximizing_player, self, legal_moves, 1,
                                    IF maximizing_player THEN -Inf ELSE Inf, None, st1)))

----------------------------------------------------------------------------
(* CustomPlayer.alphabeta *)

\* faulty variant: the bounds of the two pruning tests exchanged
Prune_SwappedBounds(maximizing_player, best_score, alpha, beta) ==
    IF maximizing_player THEN best_score >= alpha ELSE best_score <= beta

\* `if best_score >= beta` on a maximizing layer, `if best_score <= alpha` on a
\* minimizing one
Prune(maximizing_player, best_score, alpha, beta) ==
    IF maximizing_player THEN best_score >= beta ELSE best_score <= alpha

\* alpha = max(alpha, best_score) on a maximizing layer
NewAlpha(maximizing_player, best_score, alpha) ==
    IF maximizing_player THEN Max(alpha, best_score) ELSE alpha

\* beta = min(beta, best_score) on a minimizing layer
NewBeta(maximizing_player, best_score, beta) ==
    IF maximizing_player THEN beta ELSE Min(beta, best_score)

\* the loop from its i-th move on; best is the pair <<best_score, best_move>>
\* after the `if score > best_score` (or <) of that move
AlphabetaLoop(g, d, alpha, beta, maximizing_player, self, legal_moves, i, best_score, best_move, st) ==
    IF i > Len(legal_moves)
    THEN Return(best_score, best_move, st)
    ELSE Then(forecast_move(g, legal_moves[i]), LAMBDA next_state :
         Then(alphabeta(next_state, d - 1, alpha, beta, ~maximizing_player, self,
                        Forecast(st)), LAMBDA r :
              IF r.raised
              THEN Unwind(r, best_score, best_move)
              ELSE Then(IF Better(maximizing_player, r.score, best_score)
                        THEN <<r.score, legal_moves[i]>>
                        ELSE <<best_score, best_move>>, LAMBDA best :
                        IF Prune(maximizing_player, best[1], alpha, beta)
                        THEN Return(best[1], best[2], r.st)
                        ELSE Then(<<NewAlpha(maximizing_player, best[1], alpha),
                                    NewBeta(maximizing_player, best[1], beta)>>,
                                  LAMBDA window :
                                  AlphabetaLoop(g, d, window[1], window[2],
                                                maximizing_player, self, legal_moves,
                                                i + 1, best[1], best[2], r.st)))))

alphabeta(g, d, alpha, beta, maximizing_player, self, st) ==
    IF TimedOut(st)
    THEN Raise(0, None, ReadClock(st))
    ELSE Then(QueryBoard(ReadClock(st)), LAMBDA st1 :
              IF IsLeaf(g, d)
              THEN Leaf(g, d, self, st1)
              ELSE Then(get_legal_moves(g), LAMBDA legal_moves :
                        AlphabetaLoop(g, d, alpha, beta, maximizing_player, self,
                                      legal_moves, 1,
                                      IF maximizing_player THEN -Inf ELSE Inf, None, st1)))

\* the call get_move makes: self.minimax(game, depth) or self.alphabeta(game, depth)
Search(m, g, d, self, st) ==
    IF m = "minimax"
    THEN minimax(g, d, TRUE, self, st)
    ELSE alphabeta(g, d, -Inf, Inf, TRUE, self, st)

----------------------------------------------------------------------------
(* CustomPlayer.get_move *)

\* the first value of `for depth in range(sys.maxsize)`
FirstDepth == 0

\* the next value of the loop variable
NextDepth(d) == d + 1

\* faulty variant: the best move of an interrupted call is assigned as well
Assigned_Always(r, old) == r.move

\* `_, move = self.minimax(game, depth); result = move`: the assignment runs
\* only when the call returned
Assigned(r, old) == IF r.raised THEN old ELSE r.move

\* `except Timeout: pass`, then `return result`
Caught(r) == "returned"

Clocks ==
    [t : (TIMER_THRESHOLD - 1)..(TIMER_THRESHOLD + MaxBudget - 1), tick : {1}]
        \cup [t : {TIMER_THRESHOLD - 1, TIMER_THRESHOLD}, tick : {0}]

\* the default of CustomPlayer's `search_depth`
DefaultDepth == 3

Methods == {"minimax", "alphabeta"}

\* <<iterative, method, search_depth>>; search_depth is not read when iterative
Configs ==
    ({FALSE} \X Methods \X (1..MaxDepth)) \cup ({TRUE} \X Methods \X {DefaultDepth})

Idle ==
    /\ pc = "idle"
    /\ iterative = FALSE
    /\ method = "minimax"
    /\ search_depth = 0
    /\ time_left = [t |-> 0, tick |-> 0]
    /\ result = None
    /\ depth = 0
    /\ calls = <<>>
    /\ done = <<>>
    /\ trace = NewTrace([t |-> 0, tick |-> 0])
    /\ value = None

Init ==
    /\ \E b \in Boards : game = NewBoard(b[1], b[2])
    /\ plies = 0
    /\ Idle

\* Board.apply_move: the harness plays a legal move for the player to move, up
\* to `limit` moves and until a position is evaluated
apply_move(m, limit) ==
    /\ pc = "idle"
    /\ value = None
    /\ plies < limit
    /\ game' = forecast_move(game, m)
    /\ plies' = plies + 1
    /\ value' = None
    /\ UNCHANGED <<pc, iterative, method, search_depth, time_left, result, depth,
                   calls, done, trace>>

\* CustomPlayer(search_depth=sd, iterative=it, method=m).get_move(game,
\* game.get_legal_moves(), clock) up to the `try`, for the player to move.
\* score_fn is the default, custom_score, which cannot be evaluated on the
\* empty board (it reads the locations of both players when their move counts
\* are equal): the agent is asked to move once a move has been played.
get_move(it, m, sd, clock) ==
    /\ pc = "idle"
    /\ plies >= 1
    /\ iterative' = it
    /\ method' = m
    /\ search_depth' = sd
    /\ time_left' = clock
    /\ trace' = NewTrace(clock)
    /\ calls' = <<>>
    /\ done' = <<>>
    /\ depth' = FirstDepth
    /\ IF get_legal_moves(game) = <<>>
       THEN result' = NoMove /\ pc' = "returned"
       ELSE result' = None /\ pc' = "searching"
    /\ UNCHANGED <<game, plies, value>>

\* the fixed-depth branch: one search call at self.search_depth
FixedSearch ==
    /\ pc = "searching"
    /\ ~iterative
    /\ \E r \in {Search(method, game, search_depth, Agent(game.active, "custom_score"), trace)} :
           /\ calls' = Append(calls, search_depth)
           /\ done' = IF r.raised THEN done ELSE Append(done, r.move)
           /\ result' = Assigned(r, result)
           /\ trace' = r.st
           /\ time_left' = [time_left EXCEPT !.t = r.st.t]
           /\ pc' = IF r.raised THEN Caught(r) ELSE "returned"
    /\ UNCHANGED <<game, plies, iterative, method, search_depth, depth, value>>

\* one iteration of the deepening loop
IterSearch ==
    /\ pc = "searching"
    /\ iterative
    /\ depth < MaxIterDepth
    /\ \E r \in {Search(method, game, depth, Agent(game.active, "custom_score"), trace)} :
           /\ calls' = Append(calls, depth)
           /\ done' = IF r.raised THEN done ELSE Append(done, r.move)
           /\ result' = Assigned(r, result)
           /\ trace' = r.st
           /\ time_left' = [time_left EXCEPT !.t = r.st.t]
           /\ depth' = IF r.raised THEN depth ELSE NextDepth(depth)
           /\ pc' = IF r.raised THEN Caught(r) ELSE "searching"
    /\ UNCHANGED <<game, plies, iterative, method, search_depth, value>>

\* the caller takes the returned move; the agent is idle until its next turn
Returned ==
    /\ pc = "returned"
    /\ pc' = "idle"
    /\ iterative' = FALSE
    /\ method' = "minimax"
    /\ search_depth' = 0
    /\ time_left' = [t |-> 0, tick |-> 0]
    /\ result' = None
    /\ depth' = 0
    /\ calls' = <<>>
    /\ done' = <<>>
    /\ trace' = NewTrace([t |-> 0, tick |-> 0])
    /\ UNCHANGED <<game, plies, value>>

Next ==
    \/ \E i \in 1..Len(get_legal_moves(game)) : apply_move(get_legal_moves(game)[i], MaxPlies)
    \/ \E cfg \in Configs, clock \in Clocks : get_move(cfg[1], cfg[2], cfg[3], clock)
    \/ FixedSearch
    \/ IterSearch
    \/ Returned

Spec == Init /\ [][Next]_vars

\* One get_move call per run, followed to its return.  Once called, get_move
\* keeps running: its search calls are ordinary synchronous calls.
NextL ==
    \/ \E i \in 1..Len(get_legal_moves(game)) : apply_move(get_legal_moves(game)[i], MaxPliesL)
    \/ \E cfg \in Configs, clock \in Clocks : get_move(cfg[1], cfg[2], cfg[3], clock)
    \/ FixedSearch
    \/ IterSearch

InitL ==
    /\ \E b \in BoardsL : game = NewBoard(b[1], b[2])
    /\ plies = 0
    /\ Idle

FairSpec == InitL /\ [][NextL]_vars /\ WF_vars(FixedSearch) /\ WF_vars(IterSearch)

----------------------------------------------------------------------------
(* Evaluation-only runs: the evaluator applied to positions of larger boards *)

InitH ==
    /\ \E b \in BoardsH : game = NewBoard(b[1], b[2])
    /\ plies = 0
    /\ Idle

\* self.score(game, self) for a CustomPlayer with the evaluator fn, once both
\* players are on the board
score_fn(fn, player) ==
    /\ pc = "idle"
    /\ value = None
    /\ plies >= 2
    /\ value' = [fn |-> fn, player |-> player, score |-> Score(Agent(player, fn), game)]
    /\ UNCHANGED <<game, plies, pc, iterative, method, search_depth, time_left,
                   result, depth, calls, done, trace>>

NextH ==
    \/ \E i \in 1..Len(get_legal_moves(game)) : apply_move(get_legal_moves(game)[i], MaxPliesH)
    \/ \E fn \in Evaluators, player \in 1..2 : score_fn(fn, player)

SpecH == InitH /\ [][NextH]_vars

----------------------------------------------------------------------------
(* Claims about the evaluator (checked under SpecH) *)

\* the evaluator has just been applied to a position that is not terminal and
\* in which both players have the same number of legal moves
TiedEvaluation ==
    /\ value # None
    /\ value.fn = "custom_score"
    /\ get_legal_moves(game) # <<>>
    /\ Len(get_moves(game, 1)) = Len(get_moves(game, 2))

\* the largest distance of a cell of the board to its centre
MaxCenterDistance(g) == (g.height \div 2) + (g.width \div 2)

\* C6, as stated: on every board size, whenever heuristic3 is applied to a
\* non-terminal position with tied move counts, the magnitude of the score is
\* strictly less than 1 (Scale, in tenths).
C6_TiebreakBelowOne ==
    TiedEvaluation => Abs(value.score) < Scale

\* C6, amended: the same on every board whose cells are all fewer than 10 steps
\* from the centre, int(height/2) + int(width/2) <= 9, the default 7 x 7 board
\* among them.
C6_TiebreakBelowOneSmallBoard ==
    (TiedEvaluation /\ MaxCenterDistance(game) <= 9) => Abs(value.score) < Scale

\* a tied position of a 7 x 7 board in which the tiebreak decides: 0.2 for the
\* player nearer to the centre
C6_Witness ==
    /\ TiedEvaluation
    /\ game.height = 7 /\ game.width = 7
    /\ value.score = 2

----------------------------------------------------------------------------
(* Claims about the searches (checked under Spec) *)

\* a clock that never falls below the threshold: no timeout fires
Steady == NewTrace([t |-> TIMER_THRESHOLD, tick |-> 0])

\* a position the agent can be asked to search: it is its turn
AtRoot == pc = "idle" /\ plies >= 1

ToSet(seq) == {seq[i] : i \in 1..Len(seq)}

\* the two searches as get_move calls them on the current board, for an agent
\* with the evaluator fn
RootMinimax(fn, d) == minimax(game, d, TRUE, Agent(game.active, fn), Steady)
RootAlphabeta(fn, d) == alphabeta(game, d, -Inf, Inf, TRUE, Agent(game.active, fn), Steady)

\* C1: when no timeout fires, alphabeta called at the root with alpha = -inf and
\* beta = +inf returns the same score as minimax on the same state, with the
\* same evaluator and depth, for every depth >= 0.
C1_PruningEquivalence ==
    AtRoot =>
        \A fn \in Evaluators, d \in 0..MaxDepth :
            /\ ~RootMinimax(fn, d).raised
            /\ ~RootAlphabeta(fn, d).raised
            /\ RootAlphabeta(fn, d).score = RootMinimax(fn, d).score

\* a root at which alphabeta pruned (it visited fewer nodes than minimax) and
\* returned minimax's finite, non-zero score
C1_Witness ==
    /\ AtRoot
    /\ \E d \in 1..MaxDepth :
          /\ RootAlphabeta("custom_score", d).st.nodes < RootMinimax("custom_score", d).st.nodes
          /\ RootAlphabeta("custom_score", d).score = RootMinimax("custom_score", d).score
          /\ Abs(RootMinimax("custom_score", d).score) < Inf
          /\ RootMinimax("custom_score", d).score # 0

\* C10: when no timeout fires, the move alphabeta returns at the root is the
\* move minimax returns on the same state, with the same evaluator and depth,
\* for every depth >= 0.
C10_PruningPreservesMove ==
    AtRoot =>
        \A fn \in Evaluators, d \in 0..MaxDepth :
            RootAlphabeta(fn, d).move = RootMinimax(fn, d).move

\* a root at which alphabeta pruned and both searches chose the same move,
\* which is not the first one enumerated
C10_Witness ==
    /\ AtRoot
    /\ \E d \in 1..MaxDepth :
          /\ RootAlphabeta("custom_score", d).st.nodes < RootMinimax("custom_score", d).st.nodes
          /\ RootAlphabeta("custom_score", d).move = RootMinimax("custom_score", d).move
          /\ RootMinimax("custom_score", d).move \in ToSet(get_legal_moves(game))
          /\ RootMinimax("custom_score", d).move # get_legal_moves(game)[1]

\* C4: on a state whose player to move has no legal moves, for every depth
\* (0 included), either searching agent and every evaluator, both searches
\* return (game.utility(agent), (-1, -1)), +inf for the player who is not to
\* move and -inf for the one who is, without consulting the evaluator.
C4_TerminalConsistency ==
    (AtRoot /\ get_legal_moves(game) = <<>>) =>
        \A d \in 0..MaxDepth, player \in 1..2, fn \in Evaluators, m \in Methods :
            LET r == Search(m, game, d, Agent(player, fn), Steady)
            IN  /\ ~r.raised
                /\ r.score = utility(game, player)
                /\ r.score = (IF player = game.active THEN -Inf ELSE Inf)
                /\ r.move = NoMove
                /\ r.st.evals = 0
                /\ r.st.nodes = 1

\* a terminal state searched at depth 0: the player to move has lost
C4_Witness ==
    /\ AtRoot
    /\ get_legal_moves(game) = <<>>
    /\ RootMinimax("custom_score", 0).score = -Inf
    /\ RootAlphabeta("custom_score", 0).move = NoMove

\* C7, as stated: on a state with a legal move, at every depth >= 1, both
\* searches return a legal move of that state, never None, and minimax returns
\* the earliest-enumerated move whose child score equals the returned score.
C7_ReturnsLegalMove ==
    (AtRoot /\ get_legal_moves(game) # <<>>) =>
        \A d \in 1..MaxDepth :
            LET legal_moves == get_legal_moves(game)
                self == Agent(game.active, "custom_score")
                best == RootMinimax("custom_score", d)
                child(i) == minimax(forecast_move(game, legal_moves[i]), d - 1, FALSE,
                                    self, Steady).score
            IN  /\ best.move \in ToSet(legal_moves)
                /\ RootAlphabeta("custom_score", d).move \in ToSet(legal_moves)
                /\ \E i \in 1..Len(legal_moves) :
                      /\ best.move = legal_moves[i]
                      /\ child(i) = best.score
                      /\ \A j \in 1..(i - 1) : child(j) # best.score

\* there is a terminal node at most d plies below (or at) the state g
RECURSIVE TerminalWithin(_, _)
TerminalWithin(g, d) ==
    \/ get_legal_moves(g) = <<>>
    \/ /\ d > 0
       /\ \E i \in 1..Len(get_legal_moves(g)) :
             TerminalWithin(forecast_move(g, get_legal_moves(g)[i]), d - 1)

\* the bounds alpha and beta tried for calls below the root
Windows == {w \in {-Inf, -Scale, 0, Scale, Inf} \X {-Inf, -Scale, 0, Scale, Inf} : w[1] < w[2]}

\* the agent of a call on the current board: the player to move on a maximizing
\* layer, the other player on a minimizing layer
LayerAgent(maximizing_player, fn) ==
    Agent(IF maximizing_player THEN game.active ELSE 3 - game.active, fn)

\* the calls made on the current board at any level of a recursion
Calls(d) ==
    {minimax(game, d, x[1], LayerAgent(x[1], x[2]), Steady) :
        x \in BOOLEAN \X Evaluators}
    \cup
    {alphabeta(game, d, x[1][1], x[1][2], x[2], LayerAgent(x[2], x[3]), Steady) :
        x \in Windows \X BOOLEAN \X Evaluators}

\* C9, as stated: a call returns a finite score unless the node it was made on
\* is terminal.
C9_FiniteUnlessTerminal ==
    (AtRoot /\ get_legal_moves(game) # <<>>) =>
        \A d \in 0..MaxDepth : \A r \in Calls(d) : Abs(r.score) < Inf

\* C9, amended: a call returns a finite score unless a terminal node lies
\* within its depth bound (the node itself or a descendant at most `depth`
\* plies below it); on a terminal node the score is exactly +inf or -inf.
C9_FiniteUnlessTerminalWithinDepth ==
    AtRoot =>
        \A d \in 0..MaxDepth : \A r \in Calls(d) :
            /\ Abs(r.score) <= Inf
            /\ Abs(r.score) = Inf => TerminalWithin(game, d)
            /\ get_legal_moves(game) = <<>> => Abs(r.score) = Inf

\* a state with legal moves on which a search of depth >= 1 returns +inf, the
\* depth-0 search of the same state being finite
C9_Witness ==
    /\ AtRoot
    /\ get_legal_moves(game) # <<>>
    /\ Abs(RootMinimax("custom_score", 0).score) < Inf
    /\ \E d \in 1..MaxDepth :
          /\ RootMinimax("custom_score", d).score = Inf
          /\ RootAlphabeta("custom_score", d).score = Inf

----------------------------------------------------------------------------
(* Claims about get_move (checked under Spec and FairSpec) *)

\* the last search call of this get_move was interrupted by a Timeout
Interrupted == Len(calls) = Len(done) + 1

\* C8, as stated: in iterative mode the search is called with the depth bounds
\* 1, 2, 3, ... in that order.
C8_DepthsFromOne ==
    iterative => \A i \in 1..Len(calls) : calls[i] = i

C3_TimeoutContained ==
    /\ pc \in {"idle", "searching", "returned"}
    /\ Len(calls) \in {Len(done), Len(done) + 1}
    /\ Interrupted <=> trace.low = 1
    /\ trace.low <= 1
    /\ trace.after = 0
    /\ trace.nodes = trace.reads - trace.low
    /\ trace.low = 1 => pc = "returned"

\* a fixed-depth search interrupted two or more frames below the root
C3_Witness ==
    /\ pc = "returned"
    /\ ~iterative
    /\ Interrupted
    /\ trace.unwound >= 2
    /\ trace.low = 1
    /\ result = None

\* the readings of the clock fall below the threshold, or are below it already
Depleting == time_left.tick > 0 \/ time_left.t < TIMER_THRESHOLD

\* C5: every get_move call returns: in fixed-depth mode always, in iterative
\* mode whenever the readings of the clock eventually fall below the threshold.
C5_GetMoveReturns ==
    (pc = "searching" /\ (~iterative \/ Depleting)) ~> (pc = "returned")

\* a deepening run that completed three or more calls before its clock ran out
C5_Witness ==
    /\ pc = "returned"
    /\ iterative
    /\ time_left.tick > 0
    /\ time_left.t < TIMER_THRESHOLD
    /\ Len(done) >= 3

====
